---- MODULE Spec2Model ----
(***************************************************************************)
(* Model of withoutbg's local Snap pipeline (src/withoutbg/models.py):     *)
(* SnapModel.remove_background, estimate_alpha, the three stages and the   *)
(* geometry utility (_get_new_size / _constrain_to_multiple_of).           *)
(*                                                                         *)
(* Numbers.  Python floats are modelled as exact rationals n/d together    *)
(* with the sign e of the float64 rounding error (value = n/d + e*eps, eps *)
(* far below any distance that separates two decisions of the code).       *)
(* The floats of a model output tensor are fractions <<n, d>>, or NaN.     *)
(***************************************************************************)
EXTENDS Integers, Sequences, FiniteSets, TLC

VARIABLES
    depth_session, matting_session, refiner_session,  \* self.*_session
    pc,             \* position of the current remove_background call
    callNo,         \* number of remove_background calls started
    input_image,    \* argument of remove_background
    image,          \* local `image` of remove_background (RGB-normalised)
    original_size,  \* local `original_size`
    depth_map,      \* local of estimate_alpha
    alpha1,         \* local of estimate_alpha
    alpha2,         \* local of estimate_alpha / alpha_channel
    result,         \* the image returned to the caller
    error,          \* the exception that reached the caller
    invoked,        \* the session.run calls of this call, in order
    raisedIn,       \* history: where the failure of this call was raised
    failedBefore,   \* history: an earlier call failed in one of its stages
    g_pc, g_in, g_out,  \* the geometry utility applied to bounded inputs
    hf_pc,          \* where a _download_from_hf call stands
    hf_calls,       \* the _download_from_hf calls made so far
    hf_cache,       \* the files in the local Hugging Face cache
    filename,       \* argument `filename`
    hf_log,         \* history: the hf_hub_download calls of this call
    model_path,     \* the Path returned to the caller
    hf_error        \* the exception that reached the caller

pipeVars == <<depth_session, matting_session, refiner_session, pc, callNo, input_image, image, original_size, depth_map, alpha1, alpha2, result, error, invoked, raisedIn, failedBefore>>

geoVars == <<g_pc, g_in, g_out>>

hfVars == <<hf_pc, hf_calls, hf_cache, filename, hf_log, model_path, hf_error>>

vars == <<pipeVars, geoVars, hfVars>>

----------------------------------------------------------------------------
(* Bounds of the model.                                                    *)

MaxCalls == 2

MaxDim == 8

MaxN == 6

\* The _download_from_hf calls followed.
MaxHfCalls == 2

----------------------------------------------------------------------------
(* Float arithmetic of the geometry utility.                               *)

\* The sign of a float rounding error: below, exact, above.
ErrSigns == {-1, 0, 1}

RECURSIVE Gcd(_, _)
Gcd(a, b) == IF b = 0 THEN a ELSE Gcd(b, a % b)

RECURSIVE IsPow2(_)
IsPow2(k) == IF k = 1 THEN TRUE ELSE IF k % 2 = 1 THEN FALSE ELSE IsPow2(k \div 2)

\* a / b on Python ints is a float64: exact when the reduced denominator is a
\* power of two (the operands here are far below 2^53).
ExactDiv(a, b) == IsPow2(b \div Gcd(a, b))

\* np.round: nearest integer, ties to even.  A value a hair off a tie goes
\* to the side it is on.
NpRound(n, d, e) ==
    LET q == n \div d
        r == n % d
    IN  IF 2 * r < d THEN q
        ELSE IF 2 * r > d THEN q + 1
        ELSE IF e < 0 THEN q
        ELSE IF e > 0 THEN q + 1
        ELSE IF q % 2 = 0 THEN q ELSE q + 1

NpFloor(n, d, e) == IF n % d = 0 /\ e < 0 THEN (n \div d) - 1 ELSE n \div d

NpCeil(n, d, e) == IF n % d = 0 THEN (IF e > 0 THEN (n \div d) + 1 ELSE n \div d) ELSE (n \div d) + 1

\* Optional[int]: None is <<>>, a value m is <<m>>.
None == <<>>

\* A plausible slip: the re-clamp returns the minimum itself.
ConstrainClampToMin(x, ensure_multiple_of, min_val, max_val) ==
    LET d  == x.d * ensure_multiple_of
        y0 == NpRound(x.n, d, x.e) * ensure_multiple_of
        y1 == IF max_val # None /\ y0 > max_val[1] THEN NpFloor(x.n, d, x.e) * ensure_multiple_of ELSE y0
    IN  IF y1 < min_val THEN min_val ELSE y1

\* A plausible slip: the result below the minimum is not re-clamped.
ConstrainNoReclamp(x, ensure_multiple_of, min_val, max_val) ==
    LET d  == x.d * ensure_multiple_of
        y0 == NpRound(x.n, d, x.e) * ensure_multiple_of
    IN  IF max_val # None /\ y0 > max_val[1] THEN NpFloor(x.n, d, x.e) * ensure_multiple_of ELSE y0

\* A plausible slip: the maximum is never looked at.
ConstrainMaxIgnored(x, ensure_multiple_of, min_val, max_val) ==
    LET d  == x.d * ensure_multiple_of
        y0 == NpRound(x.n, d, x.e) * ensure_multiple_of
    IN  IF y0 < min_val THEN NpCeil(x.n, d, x.e) * ensure_multiple_of ELSE y0

\* SnapModel._constrain_to_multiple_of; x = [n, d, e] is the float x.
_constrain_to_multiple_of(x, ensure_multiple_of, min_val, max_val) ==
    LET d  == x.d * ensure_multiple_of
        y0 == NpRound(x.n, d, x.e) * ensure_multiple_of
        y1 == IF max_val # None /\ y0 > max_val[1] THEN NpFloor(x.n, d, x.e) * ensure_multiple_of ELSE y0
    IN  IF y1 < min_val THEN NpCeil(x.n, d, x.e) * ensure_multiple_of ELSE y1

\* The uniform scale of _get_new_size as a fraction <<num, den>>: the larger
\* of target_width / orig_width and target_height / orig_height.
UniformScale(orig_width, orig_height, target_width, target_height) ==
    IF target_width * orig_height > target_height * orig_width
    THEN <<target_width, orig_width>>
    ELSE <<target_height, orig_height>>

\* scale * orig as the float the code gets: exact when the scale is, else
\* off by the sign e.
ScaledFloat(scale, orig, e) == [n |-> scale[1] * orig, d |-> scale[2], e |-> IF ExactDiv(scale[1], scale[2]) THEN 0 ELSE e]

\* A plausible slip: the comparison is inverted and the smaller scale wins.
GetNewSizeSmallerScale(orig_width, orig_height, target_width, target_height, ensure_multiple_of, fe) ==
    LET s == IF target_width * orig_height > target_height * orig_width
             THEN <<target_height, orig_height>>
             ELSE <<target_width, orig_width>>
        new_height == _constrain_to_multiple_of(ScaledFloat(s, orig_height, fe[2]), ensure_multiple_of, target_height, None)
        new_width  == _constrain_to_multiple_of(ScaledFloat(s, orig_width, fe[1]), ensure_multiple_of, target_width, None)
    IN  <<new_width, new_height>>

\* SnapModel._get_new_size; fe = <<ew, eh>> are the signs of the float error
\* of scale_width * orig_width and scale_height * orig_height.
_get_new_size(orig_width, orig_height, target_width, target_height, ensure_multiple_of, fe) ==
    LET s == UniformScale(orig_width, orig_height, target_width, target_height)
        new_height == _constrain_to_multiple_of(ScaledFloat(s, orig_height, fe[2]), ensure_multiple_of, target_height, None)
        new_width  == _constrain_to_multiple_of(ScaledFloat(s, orig_width, fe[1]), ensure_multiple_of, target_width, None)
    IN  <<new_width, new_height>>

----------------------------------------------------------------------------
(* Values: images, masks, float tensors, exceptions.                       *)

\* A float of a model output tensor: <<n, d>> is n/d, NaN is <<>>.
NaN == <<>>

\* What a float-to-uint8 cast of NaN may store: the conversion is undefined,
\* the outcome is some byte (representatives of 0..255).
CastOfNaN == {0, 255}

\* The pixel samples a mask or tensor is followed at.
DepthPix == 1..3

AlphaPix == 1..2

\* Values a resampled 8-bit mask may hold (representatives of 0..255).
Levels == {0, 127, 255}

NoImage == [mode |-> "None", w |-> 0, h |-> 0, pix |-> <<>>]

NoMask == [stage |-> "None", run |-> 0, w |-> 0, h |-> 0, px |-> <<>>]

NoSession == "None"

Exc(type, msg) == [type |-> type, msg |-> msg, cause |-> <<>>]

NoError == Exc("None", <<>>)

NoRaise == [stage |-> "none", exc |-> NoError, inRun |-> FALSE]

\* What onnxruntime's InferenceSession.run raises.
EngineErrors == {Exc("InvalidArgument", <<"[ONNXRuntimeError] : 2 : INVALID_ARGUMENT">>), Exc("RuntimeException", <<"[ONNXRuntimeError] : 6 : RUNTIME_EXCEPTION">>)}

\* An output tensor the post-processing cannot turn into an image
\* (squeeze(0) on a batch axis that is not 1, Image.fromarray on a bad shape).
MalformedOutput == Exc("ValueError", <<"cannot select an axis to squeeze out which has size not equal to one">>)

ZeroDivision == Exc("ZeroDivisionError", <<"division by zero">>)

ShapeMismatch == Exc("ValueError", <<"could not broadcast input array">>)

NotLoaded(what) == Exc("AssertionError", <<what, " model not loaded">>)

\* The arguments remove_background is called with.  `opens` says whether
\* Image.open succeeds on a path or on bytes; pix is one pixel in the image's
\* own mode.
Inputs ==
    { [kind |-> "str",   opens |-> TRUE,  mode |-> "RGB",  w |-> 512, h |-> 384, pix |-> <<200, 100, 50>>],
      [kind |-> "Path",  opens |-> FALSE, mode |-> "None", w |-> 0,   h |-> 0,   pix |-> <<>>],
      [kind |-> "bytes", opens |-> TRUE,  mode |-> "RGBA", w |-> 100, h |-> 100, pix |-> <<10, 20, 30, 128>>],
      [kind |-> "bytes", opens |-> FALSE, mode |-> "None", w |-> 0,   h |-> 0,   pix |-> <<>>],
      [kind |-> "Image", opens |-> TRUE,  mode |-> "L",    w |-> 12,  h |-> 18,  pix |-> <<77>>],
      [kind |-> "Image", opens |-> TRUE,  mode |-> "RGB",  w |-> 0,   h |-> 5,   pix |-> <<>>],
      [kind |-> "ndarray",  opens |-> FALSE, mode |-> "None", w |-> 0, h |-> 0, pix |-> <<>>],
      [kind |-> "NoneType", opens |-> FALSE, mode |-> "None", w |-> 0, h |-> 0, pix |-> <<>>] }

\* A resolution a model may answer with instead of the expected one.
OddSize == <<64, 48>>

----------------------------------------------------------------------------
(* remove_background: loading.                                             *)

\* A plausible slip: the final else is missing and anything is taken for an
\* image.
IsSupportedAnything(inp) == TRUE

\* The isinstance chain of remove_background.
IsSupportedInput(inp) == inp.kind \in {"str", "Path", "bytes", "Image"}

UnsupportedInput(inp) == Exc("WithoutBGError", <<"Unsupported input type: ", inp.kind>>)

OpenError(inp) == IF inp.kind = "bytes" THEN Exc("UnidentifiedImageError", <<"cannot identify image file">>) ELSE Exc("FileNotFoundError", <<"No such file or directory">>)

\* image.convert("RGB") when the mode is not RGB.
ConvertRGB(img) ==
    IF img.mode = "RGB" THEN img
    ELSE [img EXCEPT !.mode = "RGB", !.pix = IF img.pix = <<>> THEN <<>> ELSE IF Len(img.pix) = 1 THEN <<img.pix[1], img.pix[1], img.pix[1]>> ELSE SubSeq(img.pix, 1, 3)]

\* image.convert("RGBA") of an RGB image: opaque alpha.
ConvertRGBA(img) == IF img.mode = "RGBA" THEN img ELSE [img EXCEPT !.mode = "RGBA", !.pix = IF img.pix = <<>> THEN <<>> ELSE Append(img.pix, 255)]

LoadImage(inp) == ConvertRGB([mode |-> inp.mode, w |-> inp.w, h |-> inp.h, pix |-> inp.pix])

\* A plausible slip: the cause is not chained (no `from e`).
WrapWithoutCause(e) == [type |-> "WithoutBGError", msg |-> <<"Model inference failed: ">> \o e.msg, cause |-> <<>>]

\* except Exception as e: raise WithoutBGError(f"Model inference failed: {str(e)}") from e
WrapInference(e) == [type |-> "WithoutBGError", msg |-> <<"Model inference failed: ">> \o e.msg, cause |-> <<e>>]

\* A plausible slip: a failed run drops the session.
SessionDroppedOnFailure(session, failed) == IF failed THEN NoSession ELSE session

\* session.run reads self.<stage>_session and never rebinds it.
SessionAfterRun(session, failed) == session

\* A plausible slip: estimate_alpha hands the depth map straight to the refiner.
NextStageSkipsMatting(stage) == IF stage = "depth" THEN "refiner" ELSE IF stage = "matting" THEN "refiner" ELSE "composite"

\* estimate_alpha: depth, then matting, then refiner, then back to
\* remove_background's compositing.
NextStage(stage) == IF stage = "depth" THEN "matting" ELSE IF stage = "matting" THEN "refiner" ELSE "composite"

----------------------------------------------------------------------------
(* Post-processing of the model outputs.                                   *)

TargetWidth == 518

TargetHeight == 518

EnsureMultipleOf == 14

MattingSize == 256

FLess(a, b) == a[1] * b[2] < b[1] * a[2]

FMin(raw) == raw[CHOOSE i \in DOMAIN raw : \A j \in DOMAIN raw : ~FLess(raw[j], raw[i])]

FMax(raw) == raw[CHOOSE i \in DOMAIN raw : \A j \in DOMAIN raw : ~FLess(raw[i], raw[j])]

HasNaN(raw) == \E i \in DOMAIN raw : raw[i] = NaN

\* ndarray.astype(np.uint8) of the float n/d (+ e*eps): truncation inside
\* 0..255, undefined (the byte ub) outside.
AsUint8(n, d, e, ub) == LET t == NpFloor(n, d, e) IN IF n >= 0 /\ t <= 255 THEN (IF t < 0 THEN 0 ELSE t) ELSE ub

\* _estimate_depth: (depth - depth.min()) / (depth.max() - depth.min()) * 255.0
\* then astype(np.uint8).  Zero contrast (or a NaN in the output) makes every
\* value NaN before the cast.
RescaleDepth(raw, ub, e) ==
    IF HasNaN(raw) THEN [i \in DOMAIN raw |-> ub[i]]
    ELSE LET lo == FMin(raw)
             hi == FMax(raw)
             rn == hi[1] * lo[2] - lo[1] * hi[2]
         IN  IF rn = 0 THEN [i \in DOMAIN raw |-> ub[i]]
             ELSE [i \in DOMAIN raw |->
                     LET n == (raw[i][1] * lo[2] - lo[1] * raw[i][2]) * hi[2]
                         d == raw[i][2] * rn
                     IN  AsUint8(255 * n, d, IF ExactDiv(n, d) THEN 0 ELSE e, ub[i])]

\* A plausible slip: no clip, and a cast to a wide integer type.
AlphaToMaskNoClip(v, ub) == IF v = NaN THEN ub ELSE IF v[1] >= 0 THEN (255 * v[1]) \div v[2] ELSE -((255 * (-v[1])) \div v[2])

\* np.clip(alpha_output * 255.0, 0, 255).astype(np.uint8); NaN passes the
\* clip and reaches the cast.
AlphaToMask(v, ub) ==
    IF v = NaN THEN ub
    ELSE IF v[1] < 0 THEN 0
    ELSE IF 255 * v[1] > 255 * v[2] THEN 255
    ELSE AsUint8(255 * v[1], v[2], 0, ub)

\* What the depth model may put at the followed pixels: contrast with an
\* in-between value (1/3 of the range, inexact in floats; 1/2, exact), negative
\* values, zero contrast, a NaN.
DepthOutputs ==
    { <<<<0, 1>>, <<1, 1>>, <<3, 1>>>>,
      <<<<5, 2>>, <<-3, 1>>, <<-1, 4>>>>,
      <<<<7, 1>>, <<7, 1>>, <<7, 1>>>>,
      <<<<0, 1>>, NaN, <<3, 1>>>> }

\* What the matting and refiner models may put at the followed pixels.
AlphaRaw == {<<-1, 1>>, <<1, 2>>, <<2, 1>>, NaN}

\* Image.resize(size, LANCZOS) of an 8-bit mask: a copy when the size is the
\* same, else resampled values, each clipped to 0..255.
ResampleOutcomes(mask, size) == IF <<mask.w, mask.h>> = size THEN {mask.px} ELSE [DOMAIN mask.px -> Levels]

Resize(mask, size, px) == [mask EXCEPT !.w = size[1], !.h = size[2], !.px = px]

NoResult == [mode |-> "None", w |-> 0, h |-> 0, rgb |-> <<>>, a |-> <<>>]

\* A plausible slip: the image is brought to the mask's size instead of the
\* mask to the image's.
CompositeAtMaskSize(img, alpha_channel, size, px) == <<[ConvertRGBA(img) EXCEPT !.w = alpha_channel.w, !.h = alpha_channel.h], alpha_channel>>

\* remove_background: alpha_channel.resize(original_size, LANCZOS) and
\* image.convert("RGBA").
CompositeImages(img, alpha_channel, size, px) == <<ConvertRGBA(img), Resize(alpha_channel, size, px)>>

\* A plausible slip: the colours are multiplied by the opacity as well.
ApplyAlphaPremultiplied(rgba, alpha_resized) == [mode |-> rgba.mode, w |-> rgba.w, h |-> rgba.h, rgb |-> [k \in 1..3 |-> (rgba.pix[k] * alpha_resized.px[1]) \div 255], a |-> alpha_resized.px]

\* image_array[:, :, 3] = alpha_array; Image.fromarray(image_array, "RGBA")
ApplyAlpha(rgba, alpha_resized) == [mode |-> rgba.mode, w |-> rgba.w, h |-> rgba.h, rgb |-> SubSeq(rgba.pix, 1, 3), a |-> alpha_resized.px]

\* StudioAPI._apply_alpha_channel: the same composition on the API path, by
\* putalpha on an RGB copy; the alpha is resized only when the sizes differ.
_apply_alpha_channel(original_image, alpha_image, px) ==
    LET rgb == ConvertRGB(original_image)
        alpha == IF <<alpha_image.w, alpha_image.h>> # <<rgb.w, rgb.h>> THEN Resize(alpha_image, <<rgb.w, rgb.h>>, px) ELSE alpha_image
    IN  [mode |-> "RGBA", w |-> rgb.w, h |-> rgb.h, rgb |-> rgb.pix, a |-> alpha.px]

Channels(mode) == IF mode = "RGBA" THEN 4 ELSE IF mode = "RGB" THEN 3 ELSE IF mode = "L" THEN 1 ELSE 0

----------------------------------------------------------------------------
(* The calls.                                                              *)

PipeInit ==
    /\ depth_session = "depth_anything_v2_vits_slim.onnx"
    /\ matting_session = "snap_matting_0.1.0.onnx"
    /\ refiner_session = "snap_refiner_0.1.0.onnx"
    /\ pc = "idle"
    /\ callNo = 0
    /\ input_image = [kind |-> "NoneType", opens |-> FALSE, mode |-> "None", w |-> 0, h |-> 0, pix |-> <<>>]
    /\ image = NoImage
    /\ original_size = <<0, 0>>
    /\ depth_map = NoMask
    /\ alpha1 = NoMask
    /\ alpha2 = NoMask
    /\ result = NoResult
    /\ error = NoError
    /\ invoked = <<>>
    /\ raisedIn = NoRaise
    /\ failedBefore = FALSE

sessions == <<depth_session, matting_session, refiner_session>>

\* An exception inside the try block of remove_background.
StageFails(stage, e, inRun) ==
    /\ error' = WrapInference(e)
    /\ raisedIn' = [stage |-> stage, exc |-> e, inRun |-> inRun]
    /\ pc' = "raised"
    /\ UNCHANGED <<depth_map, alpha1, alpha2, result>>

Plane(c, w, h) == [c |-> c, w |-> w, h |-> h]

\* _preprocess_for_depth: the image resized to the aligned size, one array.
DepthPlanes(img, size) == <<Plane(Channels(img.mode), size[1], size[2])>>

\* _matting_stage: rgb_image and depth_image both resized to 256x256, then
\* concatenated along the channel axis.
MattingPlanes(img, depth_image) == <<Plane(Channels(img.mode), MattingSize, MattingSize), Plane(1, MattingSize, MattingSize)>>

\* A plausible slip: the coarse alpha is concatenated as it came.
RefinerPlanesAlphaNotResized(img, depth_image, alpha) == <<Plane(Channels(img.mode), img.w, img.h), Plane(1, img.w, img.h), Plane(1, alpha.w, alpha.h)>>

\* _refiner_stage: rgb_image as it is, depth_image and alpha1 resized to
\* rgb_image.size, then concatenated along the channel axis.
RefinerPlanes(img, depth_image, alpha) == <<Plane(Channels(img.mode), img.w, img.h), Plane(1, img.w, img.h), Plane(1, img.w, img.h)>>

\* np.concatenate(..., axis=2) wants equal heights and widths.
Concatenable(planes) == \A i \in DOMAIN planes : planes[i].w = planes[1].w /\ planes[i].h = planes[1].h

ConcatMismatch == Exc("ValueError", <<"all the input array dimensions except for the concatenation axis must match exactly">>)

RECURSIVE SumChannels(_)
SumChannels(planes) == IF planes = <<>> THEN 0 ELSE Head(planes).c + SumChannels(Tail(planes))

\* One session.run call: the tensor fed (channels, width, height, the planes
\* it was concatenated from) and the masks it was made from.
Run(stage, planes, d, a) == [stage |-> stage, c |-> SumChannels(planes), w |-> planes[1].w, h |-> planes[1].h, planes |-> planes, depth_from |-> d, alpha_from |-> a]

From(mask) == <<mask.stage, mask.run>>

\* remove_background up to `original_size = image.size`.
RemoveBackground(inp) ==
    /\ UNCHANGED <<geoVars, hfVars>>
    /\ pc = "idle"
    /\ callNo < MaxCalls
    /\ callNo' = callNo + 1
    /\ input_image' = inp
    /\ IF ~IsSupportedInput(inp)
       THEN /\ error' = UnsupportedInput(inp)
            /\ raisedIn' = [stage |-> "load", exc |-> UnsupportedInput(inp), inRun |-> FALSE]
            /\ pc' = "raised"
            /\ UNCHANGED <<image, original_size>>
       ELSE IF inp.kind # "Image" /\ ~inp.opens
       THEN /\ error' = OpenError(inp)
            /\ raisedIn' = [stage |-> "load", exc |-> OpenError(inp), inRun |-> FALSE]
            /\ pc' = "raised"
            /\ UNCHANGED <<image, original_size>>
       ELSE /\ image' = LoadImage(inp)
            /\ original_size' = <<inp.w, inp.h>>
            /\ pc' = "depth"
            /\ UNCHANGED <<error, raisedIn>>
    /\ UNCHANGED <<sessions, depth_map, alpha1, alpha2, result, invoked, failedBefore>>

\* estimate_alpha, stage 1: _estimate_depth.
EstimateDepth ==
    /\ UNCHANGED <<geoVars, hfVars>>
    /\ pc = "depth"
    /\ IF image.w = 0 \/ image.h = 0
       THEN /\ StageFails("depth", ZeroDivision, FALSE)
            /\ UNCHANGED <<invoked, depth_session>>
       ELSE \E fe \in ErrSigns \X ErrSigns :
            LET size == _get_new_size(image.w, image.h, TargetWidth, TargetHeight, EnsureMultipleOf, fe)
            IN  IF depth_session = NoSession
                THEN /\ StageFails("depth", NotLoaded("Depth"), FALSE)
                     /\ UNCHANGED <<invoked, depth_session>>
                ELSE /\ invoked' = Append(invoked, Run("depth", DepthPlanes(image, size), <<>>, <<>>))
                     /\ \/ \E e \in EngineErrors :
                             /\ StageFails("depth", e, TRUE)
                             /\ depth_session' = SessionAfterRun(depth_session, TRUE)
                        \/ /\ StageFails("depth", MalformedOutput, FALSE)
                           /\ depth_session' = SessionAfterRun(depth_session, FALSE)
                        \/ \E raw \in DepthOutputs, ub \in [DepthPix -> CastOfNaN], e \in ErrSigns :
                             /\ depth_map' = [stage |-> "depth", run |-> callNo, w |-> size[1], h |-> size[2], px |-> RescaleDepth(raw, ub, e)]
                             /\ pc' = NextStage("depth")
                             /\ depth_session' = SessionAfterRun(depth_session, FALSE)
                             /\ UNCHANGED <<alpha1, alpha2, result, error, raisedIn>>
    /\ UNCHANGED <<matting_session, refiner_session, callNo, input_image, image, original_size, failedBefore>>

\* estimate_alpha, stage 2: _matting_stage(image, depth_map).
MattingStage ==
    /\ UNCHANGED <<geoVars, hfVars>>
    /\ pc = "matting"
    /\ IF ~Concatenable(MattingPlanes(image, depth_map))
       THEN /\ StageFails("matting", ConcatMismatch, FALSE)
            /\ UNCHANGED <<invoked, matting_session>>
       ELSE IF matting_session = NoSession
       THEN /\ StageFails("matting", NotLoaded("Matting"), FALSE)
            /\ UNCHANGED <<invoked, matting_session>>
       ELSE /\ invoked' = Append(invoked, Run("matting", MattingPlanes(image, depth_map), From(depth_map), <<>>))
            /\ \/ \E e \in EngineErrors :
                    /\ StageFails("matting", e, TRUE)
                    /\ matting_session' = SessionAfterRun(matting_session, TRUE)
               \/ /\ StageFails("matting", MalformedOutput, FALSE)
                  /\ matting_session' = SessionAfterRun(matting_session, FALSE)
               \/ \E size \in {<<MattingSize, MattingSize>>, OddSize}, raw \in [AlphaPix -> AlphaRaw], ub \in [AlphaPix -> CastOfNaN] :
                    /\ alpha1' = [stage |-> "matting", run |-> callNo, w |-> size[1], h |-> size[2], px |-> [i \in AlphaPix |-> AlphaToMask(raw[i], ub[i])]]
                    /\ pc' = NextStage("matting")
                    /\ matting_session' = SessionAfterRun(matting_session, FALSE)
                    /\ UNCHANGED <<depth_map, alpha2, result, error, raisedIn>>
    /\ UNCHANGED <<depth_session, refiner_session, callNo, input_image, image, original_size, failedBefore>>

\* estimate_alpha, stage 3: _refiner_stage(image, depth_map, alpha1).
RefinerStage ==
    /\ UNCHANGED <<geoVars, hfVars>>
    /\ pc = "refiner"
    /\ IF ~Concatenable(RefinerPlanes(image, depth_map, alpha1))
       THEN /\ StageFails("refiner", ConcatMismatch, FALSE)
            /\ UNCHANGED <<invoked, refiner_session>>
       ELSE IF refiner_session = NoSession
       THEN /\ StageFails("refiner", NotLoaded("Refiner"), FALSE)
            /\ UNCHANGED <<invoked, refiner_session>>
       ELSE /\ invoked' = Append(invoked, Run("refiner", RefinerPlanes(image, depth_map, alpha1), From(depth_map), From(alpha1)))
            /\ \/ \E e \in EngineErrors :
                    /\ StageFails("refiner", e, TRUE)
                    /\ refiner_session' = SessionAfterRun(refiner_session, TRUE)
               \/ /\ StageFails("refiner", MalformedOutput, FALSE)
                  /\ refiner_session' = SessionAfterRun(refiner_session, FALSE)
               \/ \E size \in {<<image.w, image.h>>, OddSize}, raw \in [AlphaPix -> AlphaRaw], ub \in [AlphaPix -> CastOfNaN] :
                    /\ alpha2' = [stage |-> "refiner", run |-> callNo, w |-> size[1], h |-> size[2], px |-> [i \in AlphaPix |-> AlphaToMask(raw[i], ub[i])]]
                    /\ pc' = NextStage("refiner")
                    /\ refiner_session' = SessionAfterRun(refiner_session, FALSE)
                    /\ UNCHANGED <<depth_map, alpha1, result, error, raisedIn>>
    /\ UNCHANGED <<depth_session, matting_session, callNo, input_image, image, original_size, failedBefore>>

\* remove_background after estimate_alpha: resize, convert, replace the alpha
\* channel, return.
Composite ==
    /\ UNCHANGED <<geoVars, hfVars>>
    /\ pc = "composite"
    /\ \E px \in ResampleOutcomes(alpha2, original_size) :
         LET pair == CompositeImages(image, alpha2, original_size, px)
         IN  IF pair[1].w = pair[2].w /\ pair[1].h = pair[2].h
             THEN /\ result' = ApplyAlpha(pair[1], pair[2])
                  /\ pc' = "returned"
                  /\ UNCHANGED <<depth_map, alpha1, alpha2, error, raisedIn>>
             ELSE StageFails("composite", ShapeMismatch, FALSE)
    /\ UNCHANGED <<sessions, callNo, input_image, image, original_size, invoked, failedBefore>>

\* The call is over: the caller has the image or the exception, the frame is
\* gone, the orchestrator is ready for the next call.
Return ==
    /\ UNCHANGED <<geoVars, hfVars>>
    /\ pc \in {"returned", "raised"}
    /\ pc' = "idle"
    /\ failedBefore' = (failedBefore \/ (pc = "raised" /\ raisedIn.stage \in {"depth", "matting", "refiner"}))
    /\ image' = NoImage
    /\ original_size' = <<0, 0>>
    /\ depth_map' = NoMask
    /\ alpha1' = NoMask
    /\ alpha2' = NoMask
    /\ result' = NoResult
    /\ error' = NoError
    /\ invoked' = <<>>
    /\ raisedIn' = NoRaise
    /\ UNCHANGED <<sessions, callNo, input_image>>

PipeNext ==
    \/ \E inp \in Inputs : RemoveBackground(inp)
    \/ EstimateDepth
    \/ MattingStage
    \/ RefinerStage
    \/ Composite
    \/ Return

----------------------------------------------------------------------------
(* The geometry utility on bounded inputs.                                 *)

GeoInputs == [ow : 1..MaxDim, oh : 1..MaxDim, tw : 1..MaxDim, th : 1..MaxDim, N : 1..MaxN, fe : ErrSigns \X ErrSigns]

GeoOff == [ow |-> 1, oh |-> 1, tw |-> 1, th |-> 1, N |-> 1, fe |-> <<0, 0>>]

GeoIdle == g_pc = "off" /\ g_in = GeoOff /\ g_out = <<0, 0>>

GeoInit == g_pc = "in" /\ g_in \in GeoInputs /\ g_out = <<0, 0>>

GetNewSize ==
    /\ UNCHANGED <<pipeVars, hfVars>>
    /\ g_pc = "in"
    /\ g_out' = _get_new_size(g_in.ow, g_in.oh, g_in.tw, g_in.th, g_in.N, g_in.fe)
    /\ g_pc' = "out"
    /\ UNCHANGED g_in

GeoNext == GetNewSize

\* _constrain_to_multiple_of on bounded inputs, with and without a maximum.
ConInputs == [x : [n : (-2)..(2 * MaxDim), d : 1..2, e : ErrSigns], N : 1..MaxN, min_val : 0..MaxDim, max_val : {None} \cup {<<m>> : m \in 0..MaxDim}]

ConInit == g_pc = "cin" /\ g_in \in ConInputs /\ g_out = <<0, 0>>

Constrain ==
    /\ UNCHANGED <<pipeVars, hfVars>>
    /\ g_pc = "cin"
    /\ g_out' = <<_constrain_to_multiple_of(g_in.x, g_in.N, g_in.min_val, g_in.max_val), 0>>
    /\ g_pc' = "cout"
    /\ UNCHANGED g_in

ConNext == Constrain

----------------------------------------------------------------------------
(* _download_from_hf: the cache first, then one download.                  *)

\* The files the three _get_default_*_model_path methods ask for, with the
\* names used in messages.
HfModels ==
    { <<"depth_anything_v2_vits_slim.onnx", "Depth Anything V2 model">>,
      <<"snap_matting_0.1.0.onnx", "Snap matting model">>,
      <<"snap_refiner_0.1.0.onnx", "Snap refiner model">> }

HfFiles == {m[1] : m \in HfModels}

ModelName(f) == (CHOOSE m \in HfModels : m[1] = f)[2]

NoPath == <<>>

\* Path(model_path) of a file in the cache.
CachedPath(f) == <<"~/.cache/huggingface/hub", "withoutbg/snap", f>>

LocalEntryNotFound == Exc("LocalEntryNotFoundError", <<"Cannot find the requested files in the disk cache">>)

CacheUnreadable == Exc("OSError", <<"Permission denied">>)

HubErrors == {Exc("ConnectionError", <<"Max retries exceeded">>), Exc("EntryNotFoundError", <<"404 Client Error">>)}

\* What one hf_hub_download call may do.  With local_files_only it looks in
\* the cache and never at the network: the path when the file is there and
\* readable, an exception otherwise.  Without it, it goes to the network and
\* returns the path of the stored file or raises.
HubOutcomes(f, local_files_only, cache) ==
    IF local_files_only
    THEN (IF f \in cache THEN {[ok |-> TRUE, exc |-> NoError, network |-> FALSE]} ELSE {[ok |-> FALSE, exc |-> LocalEntryNotFound, network |-> FALSE]})
         \cup {[ok |-> FALSE, exc |-> CacheUnreadable, network |-> FALSE]}
    ELSE {[ok |-> TRUE, exc |-> NoError, network |-> TRUE]}
         \cup {[ok |-> FALSE, exc |-> e, network |-> TRUE] : e \in HubErrors}

\* A plausible slip: both calls are allowed to use the network.
LocalFilesOnlyNever(attempt) == FALSE

\* The local_files_only argument of the first and of the second
\* hf_hub_download call.
LocalFilesOnly(attempt) == attempt = 1

HubCall(f, attempt, o) == [filename |-> f, local_files_only |-> LocalFilesOnly(attempt), ok |-> o.ok, exc |-> o.exc, network |-> o.network]

\* raise ModelNotFoundError(...) from e
ModelNotFound(e, name) == [type |-> "ModelNotFoundError", msg |-> <<"Failed to download ", name, " from Hugging Face: ">> \o e.msg, cause |-> <<e>>]

HfIdle == hf_pc = "off" /\ hf_calls = 0 /\ hf_cache = {} /\ filename = "" /\ hf_log = <<>> /\ model_path = NoPath /\ hf_error = NoError

HfInit == hf_pc = "idle" /\ hf_calls = 0 /\ hf_cache \in SUBSET HfFiles /\ filename = "" /\ hf_log = <<>> /\ model_path = NoPath /\ hf_error = NoError

DownloadFromHf ==
    /\ UNCHANGED <<pipeVars, geoVars>>
    /\ hf_pc = "idle"
    /\ hf_calls < MaxHfCalls
    /\ \E f \in HfFiles : filename' = f
    /\ hf_calls' = hf_calls + 1
    /\ hf_log' = <<>>
    /\ model_path' = NoPath
    /\ hf_error' = NoError
    /\ hf_pc' = "cache"
    /\ UNCHANGED hf_cache

\* The inner try: hf_hub_download(..., local_files_only=True).
CacheLookup ==
    /\ UNCHANGED <<pipeVars, geoVars>>
    /\ hf_pc = "cache"
    /\ \E o \in HubOutcomes(filename, LocalFilesOnly(1), hf_cache) :
         /\ hf_log' = Append(hf_log, HubCall(filename, 1, o))
         /\ hf_cache' = IF o.ok THEN hf_cache \cup {filename} ELSE hf_cache
         /\ IF o.ok
            THEN model_path' = CachedPath(filename) /\ hf_pc' = "returned"
            ELSE model_path' = model_path /\ hf_pc' = "download"
    /\ UNCHANGED <<hf_calls, filename, hf_error>>

\* The inner except: hf_hub_download(..., local_files_only=False); what it
\* raises reaches the outer except.
Download ==
    /\ UNCHANGED <<pipeVars, geoVars>>
    /\ hf_pc = "download"
    /\ \E o \in HubOutcomes(filename, LocalFilesOnly(2), hf_cache) :
         /\ hf_log' = Append(hf_log, HubCall(filename, 2, o))
         /\ hf_cache' = IF o.ok THEN hf_cache \cup {filename} ELSE hf_cache
         /\ IF o.ok
            THEN model_path' = CachedPath(filename) /\ hf_pc' = "returned" /\ hf_error' = hf_error
            ELSE model_path' = model_path /\ hf_pc' = "raised" /\ hf_error' = ModelNotFound(o.exc, ModelName(filename))
    /\ UNCHANGED <<hf_calls, filename>>

\* Back with the caller.
HfReturn ==
    /\ UNCHANGED <<pipeVars, geoVars>>
    /\ hf_pc \in {"returned", "raised"}
    /\ hf_pc' = "idle"
    /\ UNCHANGED <<hf_calls, hf_cache, filename, hf_log, model_path, hf_error>>

HfNext == DownloadFromHf \/ CacheLookup \/ Download \/ HfReturn

----------------------------------------------------------------------------
(* Specifications.                                                         *)

Init == PipeInit /\ GeoIdle /\ HfIdle

Next == PipeNext

Spec == Init /\ [][Next]_vars

InitGeo == PipeInit /\ GeoInit /\ HfIdle

NextGeo == GeoNext

SpecGeo == InitGeo /\ [][NextGeo]_vars

InitCon == PipeInit /\ ConInit /\ HfIdle

NextCon == ConNext

SpecCon == InitCon /\ [][NextCon]_vars

InitHf == PipeInit /\ GeoIdle /\ HfInit

NextHf == HfNext

SpecHf == InitHf /\ [][NextHf]_vars

----------------------------------------------------------------------------
(* Properties.                                                             *)

StageNames == <<"depth", "matting", "refiner">>

LoadedHandles == <<"depth_anything_v2_vits_slim.onnx", "snap_matting_0.1.0.onnx", "snap_refiner_0.1.0.onnx">>

\* C1: a remove_background call that returns normally returns a 4-channel
\* (RGBA) image whose width and height are those of the input image, whatever
\* the resolutions of the depth map, the coarse alpha and the refined alpha.
C1_OutputHasInputSize ==
    pc = "returned" =>
        /\ result.mode = "RGBA"
        /\ Channels(result.mode) = 4
        /\ result.w = input_image.w
        /\ result.h = input_image.h

\* C1 witness: a call on an RGBA input returned although every stage worked
\* at another resolution than the input's.
C1_Witness ==
    /\ pc = "returned"
    /\ input_image.mode = "RGBA"
    /\ <<depth_map.w, depth_map.h>> # <<input_image.w, input_image.h>>
    /\ <<alpha1.w, alpha1.h>> = OddSize
    /\ <<alpha2.w, alpha2.h>> = OddSize

\* C2: within a call that enters estimate_alpha the session.run calls are a
\* prefix of (depth, matting, refiner); matting is fed the depth map of this
\* call, the refiner the depth map and the coarse alpha of this call; after a
\* stage has failed no later stage has been invoked; and at the end of the call
\* all three stages have run and produced their output exactly when no stage
\* failed.
C2_StagesInOrderOnce ==
    /\ Len(invoked) <= 3
    /\ \A i \in 1..Len(invoked) :
         /\ invoked[i].stage = StageNames[i]
         /\ invoked[i].stage = "depth" => (invoked[i].depth_from = <<>> /\ invoked[i].alpha_from = <<>>)
         /\ invoked[i].stage = "matting" => (invoked[i].depth_from = <<"depth", callNo>> /\ invoked[i].alpha_from = <<>>)
         /\ invoked[i].stage = "refiner" => (invoked[i].depth_from = <<"depth", callNo>> /\ invoked[i].alpha_from = <<"matting", callNo>>)
    /\ \A k \in 1..3 : raisedIn.stage = StageNames[k] => (pc = "raised" /\ Len(invoked) <= k)
    /\ (pc \in {"returned", "raised"} /\ image # NoImage) =>
         ((Len(invoked) = 3 /\ alpha2.stage = "refiner" /\ alpha2.run = callNo) <=> (\A k \in 1..3 : raisedIn.stage # StageNames[k]))

\* C2 witness: the second call of an orchestrator failed in the matting
\* model, after the depth model and the matting model had been run once each.
C2_Witness ==
    /\ callNo = 2
    /\ pc = "raised"
    /\ raisedIn.stage = "matting"
    /\ raisedIn.inRun
    /\ Len(invoked) = 2

\* C3: an input that is neither a path (str, Path), bytes nor an image is
\* answered with the unsupported-input WithoutBGError, and at that point no
\* model has been run, no image loaded and no mask produced.
C3_UnsupportedRejectedFirst ==
    (pc # "idle" /\ input_image.kind \notin {"str", "Path", "bytes", "Image"}) =>
        /\ pc = "raised"
        /\ error.type = "WithoutBGError"
        /\ error.msg = <<"Unsupported input type: ", input_image.kind>>
        /\ invoked = <<>>
        /\ image = NoImage
        /\ depth_map = NoMask /\ alpha1 = NoMask /\ alpha2 = NoMask
        /\ result = NoResult

\* C3 witness: an ndarray was rejected by an orchestrator that had completed a
\* call before.
C3_Witness ==
    /\ callNo = 2
    /\ pc = "raised"
    /\ input_image.kind = "ndarray"
    /\ error.type = "WithoutBGError"

\* C4: an exception raised by the run of the depth, matting or refiner model
\* reaches the caller as a WithoutBGError whose cause is that exception, and
\* as nothing else.
C4_RunFailureWrapped ==
    raisedIn.inRun =>
        /\ pc = "raised"
        /\ raisedIn.stage \in {"depth", "matting", "refiner"}
        /\ error.type = "WithoutBGError"
        /\ error.cause = <<raisedIn.exc>>
        /\ raisedIn.exc.type # "WithoutBGError"

\* C4 witness: the refiner model raised a runtime exception.
C4_Witness ==
    /\ pc = "raised"
    /\ raisedIn.inRun
    /\ raisedIn.stage = "refiner"
    /\ raisedIn.exc.type = "RuntimeException"

\* C5: when the run of the matting model raises, the error that reaches the
\* caller is one WithoutBGError that carries the original cause and names the
\* failing stage, "matting".
C5_MattingFailureNamesStage ==
    (pc = "raised" /\ raisedIn.stage = "matting" /\ raisedIn.inRun) =>
        /\ error.type = "WithoutBGError"
        /\ error.cause = <<raisedIn.exc>>
        /\ \E i \in DOMAIN error.msg : error.msg[i] = "matting"

\* C6: the three sessions are, in every state, the handles loaded at
\* construction (no call rebinds or clears one), and a call made after a call
\* that failed in a stage returns normally whenever its own input loads to a
\* non-empty image and its own model runs neither raise nor answer malformed.
C6_FailureLeavesOrchestratorUsable ==
    /\ sessions = LoadedHandles
    /\ (failedBefore /\ pc \in {"returned", "raised"}) =>
         \/ pc = "returned" /\ result.mode = "RGBA" /\ Len(invoked) = 3
         \/ pc = "raised" /\ raisedIn.stage = "load"
         \/ pc = "raised" /\ raisedIn.exc = ZeroDivision /\ (image.w = 0 \/ image.h = 0)
         \/ pc = "raised" /\ raisedIn.exc \in EngineErrors \cup {MalformedOutput} /\ invoked # <<>>

\* C6 witness: a call returned an image on an orchestrator on which an earlier
\* call had failed in a stage.
C6_Witness ==
    /\ failedBefore
    /\ pc = "returned"
    /\ result.mode = "RGBA"
    /\ sessions = LoadedHandles

\* C7: for positive original and target sizes and N >= 1 both numbers
\* returned by _get_new_size are multiples of N.
C7_MultiplesOfN ==
    g_pc = "out" => (g_out[1] % g_in.N = 0 /\ g_out[2] % g_in.N = 0)

\* C7 witness: neither scaled size (9 and 6) is a multiple of N = 5, and one
\* of them went through the re-clamp.
C7_Witness ==
    /\ g_pc = "out"
    /\ g_in.ow = 3 /\ g_in.oh = 2 /\ g_in.tw = 4 /\ g_in.th = 6 /\ g_in.N = 5
    /\ g_out = <<10, 10>>

\* C8: the size returned by _get_new_size is at least the target size on
\* both axes.
C8_AtLeastTarget ==
    g_pc = "out" => (g_out[1] >= g_in.tw /\ g_out[2] >= g_in.th)

\* C8 witness: rounding 5 to the nearest multiple of 4 gives 4, below the
\* target 5, and the result is 8.
C8_Witness ==
    /\ g_pc = "out"
    /\ g_in.ow = 1 /\ g_in.oh = 1 /\ g_in.tw = 5 /\ g_in.th = 5 /\ g_in.N = 4
    /\ NpRound(5, 4, 0) * 4 < g_in.tw
    /\ g_out = <<8, 8>>

\* C9: with s the larger of target_width / orig_width and
\* target_height / orig_height, the returned width differs from s * orig_width
\* by less than N and the returned height from s * orig_height by less than N.
C9_UniformScaleWithinN ==
    g_pc = "out" =>
        LET sn == IF g_in.tw * g_in.oh >= g_in.th * g_in.ow THEN g_in.tw ELSE g_in.th
            sd == IF g_in.tw * g_in.oh >= g_in.th * g_in.ow THEN g_in.ow ELSE g_in.oh
            dw == g_out[1] * sd - g_in.ow * sn
            dh == g_out[2] * sd - g_in.oh * sn
        IN  /\ dw < g_in.N * sd /\ -dw < g_in.N * sd
            /\ dh < g_in.N * sd /\ -dh < g_in.N * sd

\* C9 witness: a 2x3 original and a 4x4 target (different aspect ratios): the
\* scale is 2, the scaled size 4x6, the result 6x6.
C9_Witness ==
    /\ g_pc = "out"
    /\ g_in.ow = 2 /\ g_in.oh = 3 /\ g_in.tw = 4 /\ g_in.th = 4 /\ g_in.N = 3
    /\ g_out = <<6, 6>>

\* C10: every value of the inverse-depth map, of the coarse alpha and of the
\* refined alpha lies in 0..255.
C10_MaskValuesInRange ==
    \A m \in {depth_map, alpha1, alpha2} : \A i \in DOMAIN m.px : m.px[i] \in 0..255

\* C10 witness: a depth map without contrast (all values equal, which only
\* the cast of NaN produces), a coarse alpha clipped at both ends and a refined
\* alpha with an in-between value.
C10_Witness ==
    /\ pc = "composite"
    /\ depth_map.px = <<255, 255, 255>>
    /\ alpha1.px = <<0, 255>>
    /\ alpha2.px = <<127, 0>>

\* C11: with Down the largest multiple of N that is <= x and Up the smallest
\* that is >= x, the result of _constrain_to_multiple_of is: a multiple y0
\* nearest to x; Down instead, when a maximum is given and y0 exceeds it; and Up
\* instead, when the value so far is below the minimum.  A result that is
\* rounded down although Up is nearer occurs only with a maximum that the
\* nearest multiple exceeds.
C11_ThreeWayRounding ==
    g_pc = "cout" =>
        LET n  == g_in.x.n
            d  == g_in.x.d
            e  == g_in.x.e
            N  == g_in.N
            lo == g_in.min_val
            hi == g_in.max_val
            r  == g_out[1]
            Cands == {k * N : k \in (-4)..(2 * MaxDim + 3)}
            Below(y)  == y * d < n \/ (y * d = n /\ e > 0)
            AtMost(y) == y * d < n \/ (y * d = n /\ e >= 0)
            Down == CHOOSE y \in Cands : AtMost(y) /\ ~AtMost(y + N)
            Up   == CHOOSE y \in Cands : ~Below(y) /\ Below(y - N)
            DownNearest == 2 * (n - Down * d) < N * d \/ (2 * (n - Down * d) = N * d /\ e <= 0)
            UpNearest   == 2 * (Up * d - n) < N * d \/ (2 * (Up * d - n) = N * d /\ e >= 0)
            Policy(y0) == LET y1 == IF hi # None /\ y0 > hi[1] THEN Down ELSE y0
                          IN  IF y1 < lo THEN Up ELSE y1
        IN  /\ \/ DownNearest /\ r = Policy(Down)
               \/ UpNearest /\ r = Policy(Up)
            /\ (r = Down /\ Down # Up /\ ~DownNearest) => (hi # None /\ Up > hi[1])

\* C11 witness: x = 7, N = 4, maximum 7: the nearest multiple 8 exceeds the
\* maximum and the result is 7 rounded down, 4.
C11_Witness ==
    /\ g_pc = "cout"
    /\ g_in.x = [n |-> 7, d |-> 1, e |-> 0] /\ g_in.N = 4 /\ g_in.min_val = 0 /\ g_in.max_val = <<7>>
    /\ g_out[1] = 4

\* C12: every tensor fed to a model fits the model: the depth model gets 3
\* channels at a width and a height that are positive multiples of 14, the
\* matting model 4 channels at 256x256 whatever the input's aspect ratio, the
\* refiner 5 channels at the input image's own size; the planes concatenated
\* into a tensor all have the tensor's width and height, and no call fails on
\* a concatenation of planes of different sizes.
C12_TensorsFitModels ==
    /\ \A i \in 1..Len(invoked) :
         LET r == invoked[i]
         IN  /\ r.stage = "depth" => (r.c = 3 /\ r.w > 0 /\ r.h > 0 /\ r.w % 14 = 0 /\ r.h % 14 = 0)
             /\ r.stage = "matting" => (r.c = 4 /\ r.w = 256 /\ r.h = 256 /\ Len(r.planes) = 2)
             /\ r.stage = "refiner" => (r.c = 5 /\ r.w = input_image.w /\ r.h = input_image.h /\ Len(r.planes) = 3)
             /\ \A j \in DOMAIN r.planes : r.planes[j].w = r.w /\ r.planes[j].h = r.h
    /\ raisedIn.exc # ConcatMismatch

\* C12 witness: all three models were fed for the 12x18 grayscale input, the
\* depth model at 518x784, the refiner at 12x18 with a depth map and a coarse
\* alpha that came at other sizes.
C12_Witness ==
    /\ Len(invoked) = 3
    /\ input_image.mode = "L" /\ input_image.w = 12 /\ input_image.h = 18
    /\ invoked[1].w = 518 /\ invoked[1].h = 784
    /\ <<depth_map.w, depth_map.h>> # <<12, 18>>
    /\ <<alpha1.w, alpha1.h>> = OddSize
    /\ invoked[3].c = 5 /\ invoked[3].w = 12 /\ invoked[3].h = 18

\* The colour of the input as an RGB pixel: a grey level three times, the
\* colour channels of an image that has more.
RgbOfInput == IF Len(input_image.pix) = 1 THEN <<input_image.pix[1], input_image.pix[1], input_image.pix[1]>> ELSE SubSeq(input_image.pix, 1, 3)

\* C13: compositing overwrites only the opacity: the returned image is RGBA,
\* its colour channels are those of the input normalised to RGB (an opacity
\* the input had is dropped, not blended in), and its alpha channel is this
\* call's refiner mask resampled to the input's size (the mask itself when it
\* already has that size).  The API path's _apply_alpha_channel composes the
\* same image from the same parts.
C13_OnlyAlphaReplaced ==
    pc = "returned" =>
        /\ result.mode = "RGBA"
        /\ result.rgb = RgbOfInput
        /\ alpha2.stage = "refiner" /\ alpha2.run = callNo
        /\ DOMAIN result.a = DOMAIN alpha2.px
        /\ \A k \in DOMAIN result.a : result.a[k] \in 0..255
        /\ (<<alpha2.w, alpha2.h>> = <<input_image.w, input_image.h>> => result.a = alpha2.px)
        /\ result = _apply_alpha_channel([mode |-> input_image.mode, w |-> input_image.w, h |-> input_image.h, pix |-> input_image.pix], alpha2, result.a)

\* C13 witness: the translucent RGBA input comes back with its three colours
\* and with the refiner's mask, which is not the input's opacity, as alpha.
C13_Witness ==
    /\ pc = "returned"
    /\ input_image.pix = <<10, 20, 30, 128>>
    /\ result.rgb = <<10, 20, 30>>
    /\ <<alpha2.w, alpha2.h>> = <<100, 100>>
    /\ result.a[1] = 0 /\ result.a[2] = 255

\* C14: _download_from_hf asks the cache first and the network only after the
\* cache lookup failed: the first hf_hub_download call is local-only and
\* touches no network; a second call is made only after the first failed, it
\* is the only one to use the network, and there is never a third; when the
\* lookup succeeds the cached path is returned after that one call; when
\* lookup and download both fail the caller gets a ModelNotFoundError whose
\* cause is the download's exception.
C14_CacheFirstOneDownload ==
    /\ Len(hf_log) <= 2
    /\ \A i \in 1..Len(hf_log) : hf_log[i].filename = filename /\ (hf_log[i].network <=> i = 2)
    /\ Len(hf_log) >= 1 => hf_log[1].local_files_only
    /\ Len(hf_log) = 2 => ~hf_log[1].ok
    /\ hf_pc = "download" => (Len(hf_log) = 1 /\ ~hf_log[1].ok)
    /\ hf_pc = "returned" =>
         /\ Len(hf_log) >= 1
         /\ hf_log[Len(hf_log)].ok
         /\ model_path = <<"~/.cache/huggingface/hub", "withoutbg/snap", filename>>
         /\ hf_error.type = "None"
    /\ hf_pc = "raised" =>
         /\ Len(hf_log) = 2
         /\ ~hf_log[1].ok /\ ~hf_log[2].ok
         /\ hf_error.type = "ModelNotFoundError"
         /\ hf_error.cause = <<hf_log[2].exc>>
         /\ model_path = <<>>

\* C14 witness: the file was not in the cache, the one download failed on the
\* connection, and the caller holds a ModelNotFoundError caused by it.
C14_Witness ==
    /\ hf_pc = "raised"
    /\ filename \notin hf_cache
    /\ Len(hf_log) = 2
    /\ hf_log[1].exc.type = "LocalEntryNotFoundError"
    /\ hf_log[2].network
    /\ hf_error.cause[1].type = "ConnectionError"

====
